---- MODULE Spec2Model ----
(***************************************************************************)
(* Model of skills/knowledge-graph/knowledge_graph.py: the MemoryDB        *)
(* read-only accessor over the SQLite memory store, the queries it         *)
(* derives (entities, relations, co-occurrences, timeline) and main().     *)
(*                                                                         *)
(* A table is a sequence of rows; the row at index i has id i.  Text is a  *)
(* sequence of characters, so that SUBSTR and slicing are computed.  A SQL *)
(* NULL / Python None is the record NULL, a present value v is Val(v).     *)
(***************************************************************************)
EXTENDS Integers, Sequences, FiniteSets, TLC

VARIABLES
    fileExists,       \* os.path.isfile(db_path)
    schema,           \* names of the tables present in the store file
    sessions,         \* rows [created_at, summary]
    knowledge,        \* rows [area, summary, updated_at]
    facts,            \* rows [fact]
    entity_metadata,  \* rows [entity, entity_type, source_type, source_id, created_at]
    entry_relations,  \* rows [from_type, from_id, to_type, to_id, relation, created_at]
    tables,           \* MemoryDB.tables: availability flags computed at open
    conn,             \* "none" | "open" | "closed"
    closes,           \* number of MemoryDB.close() calls so far
    args,             \* parsed command line [command, entity]
    pc,               \* position of main(), or "lib" for a client of MemoryDB
    exitStatus,       \* -1 while running, else the process exit status
    output,           \* view output rendered on stdout so far
    ret,              \* last MemoryDB query: [op, arg, raised, val]
    prior             \* the query before the last, for a client that
                      \* compares consecutive results; else Untracked

vars == <<fileExists, schema, sessions, knowledge, facts, entity_metadata,
          entry_relations, tables, conn, closes, args, pc, exitStatus,
          output, ret, prior>>

store == <<fileExists, schema, sessions, knowledge, facts, entity_metadata,
           entry_relations>>

mainVars == <<args, pc, exitStatus, output>>

\* ---------------------------------------------------------------- bounds

MaxMentions == 4
MaxLimit == 2
MaxSessions == 2
MaxKnowledge == 2
MaxTime == 3
MaxRelations == 2
MaxRows == 1
MaxDetailMentions == 2
MaxRepeatRows == 2

\* ------------------------------------------------------------ value sets

auth == <<"a", "u", "t", "h">>
jwt == <<"j", "w", "t">>
Names == {auth, jwt}
EntityTypes == {"concept", "file"}
Sources == {<<"knowledge", 1>>, <<"knowledge", 2>>, <<"session", 2>>}
Limits == 0..MaxLimit
\* Timestamps, by their rank in text order.
Times == 1..MaxTime

NULL == [null |-> TRUE]
Val(v) == [null |-> FALSE, v |-> v]

TableNames == {"sessions", "knowledge", "facts", "entity_metadata",
               "entry_relations", "memory_fts"}

\* The tables get_stats counts.
AllTables == {"sessions", "knowledge", "facts", "entity_metadata",
              "entry_relations"}

\* -------------------------------------------------------- program constants

LabelBudget == 60
ContextBudget == 80
RelationsLimit == 100
DetailLimit == 20
GraphEntityLimit == 50
GraphCoLimit == 20
ItemsShown == 15
RelationsShown == 30
RichLabelWidth == 35
PlainLabelWidth == 30
PlainRelationWidth == 15
PlainEntityWidth == 25
PlainSharedWidth == 8
TimelineLimit == 30
RichSummaryWidth == 100
PlainSummaryWidth == 60
ActivityDates == 14
StatsEntityLimit == 100
StatsTopLimit == 15
RichBarWidth == 30
PlainBarWidth == 25

\* ------------------------------------------------------------- helpers

Min(a, b) == IF a < b THEN a ELSE b

SeqsUpTo(S, n) == UNION {[1..k -> S] : k \in 0..n}

\* SQL "LIMIT ?": a negative limit means no limit.
SqlLimit(rows, limit) ==
    IF limit < 0 THEN rows ELSE SubSeq(rows, 1, Min(limit, Len(rows)))

\* All orders in which a statement may return the row set S under
\* "ORDER BY key DESC", key[r] being the sort key of row r: rows with
\* equal keys come in any order.
OrderByDesc(S, key) ==
    {s \in [1..Cardinality(S) -> S] :
        /\ \A i, j \in 1..Cardinality(S) : i # j => s[i] # s[j]
        /\ \A i \in 1..(Cardinality(S) - 1) : key[s[i]] >= key[s[i + 1]]}

\* ------------------------------------------------------------ MemoryDB

_ensure_tables_exist == [t \in TableNames |-> t \in schema]

_has_entities == tables["entity_metadata"]

_has_relations == tables["entry_relations"]

NoRet == [op |-> "none", arg |-> 0, raised |-> FALSE, val |-> <<>>]

Returned(op, arg, val) == [op |-> op, arg |-> arg, raised |-> FALSE, val |-> val]

\* sqlite3.OperationalError "no such table" out of conn.execute
Raised(op, arg) == [op |-> op, arg |-> arg, raised |-> TRUE, val |-> <<>>]

\* The value of prior for a client that keeps no previous result.
Untracked == [op |-> "untracked"]

\* A client that compares consecutive results keeps the last one.
Remember == prior' = IF prior = Untracked THEN Untracked ELSE ret

\* SQLite runs the same prepared program over the same pages: a statement
\* executed again with the same arguments over an unchanged store gives
\* the rows it gave before, in the same order.  outcomes are the results
\* the statement may give over the present store.
Again(op, arg, outcomes) ==
    IF ret.op = op /\ ret.arg = arg /\ ret \in outcomes THEN {ret} ELSE outcomes

\* conn.execute of a statement reading the tables `reads`: preparing it
\* raises "no such table" unless every table it names is in the store;
\* otherwise it returns one of the row lists in vals.
Execute(reads, op, arg, vals) ==
    IF reads \subseteq schema
      THEN {Returned(op, arg, v) : v \in vals}
      ELSE {Raised(op, arg)}

\* --------------------------------------------------------------- stats

\* SELECT COUNT(*) FROM tbl
RowCount(tbl) ==
    CASE tbl = "sessions" -> Len(sessions)
      [] tbl = "knowledge" -> Len(knowledge)
      [] tbl = "facts" -> Len(facts)
      [] tbl = "entity_metadata" -> Len(entity_metadata)
      [] tbl = "entry_relations" -> Len(entry_relations)

get_stats_ret ==
    IF \E tbl \in AllTables : tables[tbl] /\ tbl \notin schema
      THEN {Raised("get_stats", 0)}
      ELSE {Returned("get_stats", 0,
                     [tbl \in AllTables |-> IF tables[tbl] THEN RowCount(tbl) ELSE 0])}

get_stats ==
    /\ pc = "lib" /\ conn = "open"
    /\ ret' \in Again("get_stats", 0, get_stats_ret)
    /\ Remember
    /\ UNCHANGED <<store, tables, conn, closes, mainVars>>

\* ----------------------------------------------------------- relations

\* SUBSTR(text, 1, n)
Substr(text, n) == SubSeq(text, 1, Min(n, Len(text)))

\* Mutant: a missing row gives the empty text instead of NULL.
Lookup_Empty(tbl, id, expr) ==
    IF id \in 1..Len(tbl) THEN Val(expr[id]) ELSE Val(<<>>)

\* A scalar subquery "(SELECT expr FROM tbl WHERE id = ?)": the value for
\* the row with that id, NULL when there is no such row.
Lookup(tbl, id, expr) ==
    IF id \in 1..Len(tbl) THEN Val(expr[id]) ELSE NULL

\* The CASE of get_relations that labels an endpoint; a type matching no
\* WHEN gives NULL.
RelationLabel(type, id) ==
    CASE type = "session" ->
           Lookup(sessions, id,
                  [i \in 1..Len(sessions) |-> Substr(sessions[i].summary, LabelBudget)])
      [] type = "knowledge" ->
           Lookup(knowledge, id, [i \in 1..Len(knowledge) |-> knowledge[i].area])
      [] type = "fact" ->
           Lookup(facts, id,
                  [i \in 1..Len(facts) |-> Substr(facts[i].fact, LabelBudget)])
      [] OTHER -> NULL

LabeledRelation(er) ==
    [from_type |-> er.from_type, from_id |-> er.from_id,
     to_type |-> er.to_type, to_id |-> er.to_id, relation |-> er.relation,
     from_label |-> RelationLabel(er.from_type, er.from_id),
     to_label |-> RelationLabel(er.to_type, er.to_id)]

\* The row lists the statement of get_relations may return:
\* ORDER BY er.created_at DESC LIMIT 100.
LabeledRelations ==
    LET ids == 1..Len(entry_relations)
    IN  {[i \in DOMAIN s |-> LabeledRelation(entry_relations[s[i]])] :
            s \in {SqlLimit(o, RelationsLimit) :
                     o \in OrderByDesc(ids, [i \in ids |-> entry_relations[i].created_at])}}

\* The tables the statement of get_relations names.
RelationsReads == {"entry_relations", "sessions", "knowledge", "facts"}

get_relations_ret ==
    IF ~_has_relations
      THEN {Returned("get_relations", 0, <<>>)}
      ELSE Execute(RelationsReads, "get_relations", 0, LabeledRelations)

get_relations ==
    /\ pc = "lib" /\ conn = "open"
    /\ ret' \in Again("get_relations", 0, get_relations_ret)
    /\ Remember
    /\ UNCHANGED <<store, tables, conn, closes, mainVars>>

\* ------------------------------------------------------ co-occurrences

\* The join condition of get_co_occurrences.
CoJoinOn(a, b) ==
    /\ entity_metadata[a].source_type = entity_metadata[b].source_type
    /\ entity_metadata[a].source_id = entity_metadata[b].source_id
    /\ a < b

CoJoin ==
    {p \in (1..Len(entity_metadata)) \X (1..Len(entity_metadata)) :
        CoJoinOn(p[1], p[2])}

\* GROUP BY a.entity, b.entity
CoGroupKey(p) == <<entity_metadata[p[1]].entity, entity_metadata[p[2]].entity>>

\* HAVING shared_sources >= 2, where shared_sources is COUNT(*) of the group
CoHaving(count) == count >= 2

\* The row lists the statement of get_co_occurrences may return.  type_a
\* and type_b are bare columns of an aggregate query: SQLite takes them
\* from some joined row of the group.
CoOccurrences(limit) ==
    LET join == CoJoin
        keys == {CoGroupKey(p) : p \in join}
        grp == [k \in keys |-> {p \in join : CoGroupKey(p) = k}]
        kept == {k \in keys : CoHaving(Cardinality(grp[k]))}
        tys == [k \in kept |->
                  {<<entity_metadata[p[1]].entity_type,
                     entity_metadata[p[2]].entity_type>> : p \in grp[k]}]
        row(k, t) == [entity_a |-> k[1], type_a |-> t[1],
                      entity_b |-> k[2], type_b |-> t[2],
                      shared_sources |-> Cardinality(grp[k])]
        rowsets == {{row(k, f[k]) : k \in kept} :
                      f \in {g \in [kept -> EntityTypes \X EntityTypes] :
                               \A k \in kept : g[k] \in tys[k]}}
    IN  {SqlLimit(s, limit) :
            s \in UNION {OrderByDesc(R, [r \in R |-> r.shared_sources]) :
                            R \in rowsets}}

get_co_occurrences_ret(limit) ==
    IF ~_has_entities
      THEN {Returned("get_co_occurrences", limit, <<>>)}
      ELSE Execute({"entity_metadata"}, "get_co_occurrences", limit,
                   CoOccurrences(limit))

get_co_occurrences(limit) ==
    /\ pc = "lib" /\ conn = "open"
    /\ ret' \in Again("get_co_occurrences", limit, get_co_occurrences_ret(limit))
    /\ Remember
    /\ UNCHANGED <<store, tables, conn, closes, mainVars>>

\* ------------------------------------------------------------ entities

\* Mutant: GROUP BY entity alone.
EntGroupKey_ByName(r) == <<r.entity, "concept">>

\* GROUP BY entity, entity_type
EntGroupKey(r) == <<r.entity, r.entity_type>>

\* The row lists the aggregate statement shared by get_entities and
\* get_top_entities may return: one row per group with its COUNT(*),
\* ORDER BY ref_count DESC, LIMIT ?.
EntityCounts(limit) ==
    LET ids == 1..Len(entity_metadata)
        keys == {EntGroupKey(entity_metadata[i]) : i \in ids}
        row(k) == [entity |-> k[1], entity_type |-> k[2],
                   ref_count |->
                     Cardinality({i \in ids : EntGroupKey(entity_metadata[i]) = k})]
        R == {row(k) : k \in keys}
    IN  {SqlLimit(s, limit) : s \in OrderByDesc(R, [r \in R |-> r.ref_count])}

\* grouped[r["entity_type"]].append({"entity": ..., "refs": ...}) over the
\* rows in order, for one type.
RECURSIVE ItemsOfType(_, _)
ItemsOfType(rows, t) ==
    IF rows = <<>> THEN <<>>
    ELSE (IF Head(rows).entity_type = t
            THEN <<[entity |-> Head(rows).entity, refs |-> Head(rows).ref_count]>>
            ELSE <<>>) \o ItemsOfType(Tail(rows), t)

\* dict(grouped): entity type -> its items; only types with a row are keys.
Grouped(rows) ==
    [t \in {rows[i].entity_type : i \in DOMAIN rows} |-> ItemsOfType(rows, t)]

get_entities_ret(limit) ==
    IF ~_has_entities
      THEN {Returned("get_entities", limit, <<>>)}
      ELSE Execute({"entity_metadata"}, "get_entities", limit,
                   {Grouped(rows) : rows \in EntityCounts(limit)})

get_entities(limit) ==
    /\ pc = "lib" /\ conn = "open"
    /\ ret' \in Again("get_entities", limit, get_entities_ret(limit))
    /\ Remember
    /\ UNCHANGED <<store, tables, conn, closes, mainVars>>

get_top_entities_ret(limit) ==
    IF ~_has_entities
      THEN {Returned("get_top_entities", limit, <<>>)}
      ELSE Execute({"entity_metadata"}, "get_top_entities", limit,
                   EntityCounts(limit))

get_top_entities(limit) ==
    /\ pc = "lib" /\ conn = "open"
    /\ ret' \in Again("get_top_entities", limit, get_top_entities_ret(limit))
    /\ Remember
    /\ UNCHANGED <<store, tables, conn, closes, mainVars>>

\* ------------------------------------------------------------ timeline

\* Mutant: the merged entries are returned unsorted.
SortedDesc_None(entries) == entries

\* list.sort(key=created_at, reverse=True): a stable sort, entries with
\* equal timestamps keep their order.
RECURSIVE SortedDesc(_)
SortedDesc(entries) ==
    IF entries = <<>> THEN <<>>
    ELSE LET n == Len(entries)
             e == entries[n]
             done == SortedDesc(SubSeq(entries, 1, n - 1))
             k == Cardinality({i \in 1..(n - 1) : done[i].created_at >= e.created_at})
         IN  SubSeq(done, 1, k) \o <<e>> \o SubSeq(done, k + 1, n - 1)

\* Python's entries[:limit]
PySlice(entries, limit) ==
    IF limit >= 0 THEN SubSeq(entries, 1, Min(limit, Len(entries)))
    ELSE SubSeq(entries, 1, Len(entries) + limit)

\* SELECT id, created_at, summary, 'session' as type FROM sessions
SessionEntries ==
    {[id |-> i, created_at |-> sessions[i].created_at,
      summary |-> sessions[i].summary, type |-> "session"] :
        i \in 1..Len(sessions)}

\* SELECT id, updated_at as created_at, area || ': ' || summary as summary,
\* 'knowledge' as type FROM knowledge
KnowledgeEntries ==
    {[id |-> i, created_at |-> knowledge[i].updated_at,
      summary |-> knowledge[i].area \o <<":", " ">> \o knowledge[i].summary,
      type |-> "knowledge"] :
        i \in 1..Len(knowledge)}

\* Mutant: ... ORDER BY created_at ASC LIMIT ?
NewestFirst_Oldest(S, limit) ==
    {SqlLimit(s, limit) : s \in OrderByDesc(S, [e \in S |-> 0 - e.created_at])}

\* ... ORDER BY created_at DESC LIMIT ?
NewestFirst(S, limit) ==
    {SqlLimit(s, limit) : s \in OrderByDesc(S, [e \in S |-> e.created_at])}

get_timeline_ret(limit) ==
    IF \/ tables["sessions"] /\ "sessions" \notin schema
       \/ tables["knowledge"] /\ "knowledge" \notin schema
      THEN {Raised("get_timeline", limit)}
      ELSE {Returned("get_timeline", limit, PySlice(SortedDesc(ss \o kn), limit)) :
              ss \in (IF tables["sessions"]
                        THEN NewestFirst(SessionEntries, limit) ELSE {<<>>}),
              kn \in (IF tables["knowledge"]
                        THEN NewestFirst(KnowledgeEntries, limit) ELSE {<<>>})}

\* Mutant: the query consumes the oldest session row.
get_timeline_Consuming(limit) ==
    /\ pc = "lib" /\ conn = "open"
    /\ ret' \in Again("get_timeline", limit, get_timeline_ret(limit))
    /\ Remember
    /\ sessions' = IF sessions = <<>> THEN sessions ELSE Tail(sessions)
    /\ UNCHANGED <<fileExists, schema, knowledge, facts, entity_metadata,
                   entry_relations, tables, conn, closes, mainVars>>

get_timeline(limit) ==
    /\ pc = "lib" /\ conn = "open"
    /\ ret' \in Again("get_timeline", limit, get_timeline_ret(limit))
    /\ Remember
    /\ UNCHANGED <<store, tables, conn, closes, mainVars>>

\* -------------------------------------------------------- entity detail

UpperCase == <<"A", "B", "C", "D", "E", "F", "G", "H", "I", "J", "K", "L", "M",
               "N", "O", "P", "Q", "R", "S", "T", "U", "V", "W", "X", "Y", "Z">>
LowerCase == <<"a", "b", "c", "d", "e", "f", "g", "h", "i", "j", "k", "l", "m",
               "n", "o", "p", "q", "r", "s", "t", "u", "v", "w", "x", "y", "z">>

\* SQLite's LIKE folds the case of ASCII letters.
Fold(c) ==
    IF \E i \in 1..26 : UpperCase[i] = c
      THEN LowerCase[CHOOSE i \in 1..26 : UpperCase[i] = c]
      ELSE c

\* text LIKE pat in SQLite: % matches any run of characters, _ any one
\* character, any other character itself up to ASCII case.
RECURSIVE Like(_, _)
Like(text, pat) ==
    IF pat = <<>> THEN text = <<>>
    ELSE IF Head(pat) = "%"
      THEN Like(text, Tail(pat)) \/ (text # <<>> /\ Like(Tail(text), pat))
    ELSE IF text = <<>> THEN FALSE
    ELSE IF Head(pat) = "_" THEN Like(Tail(text), Tail(pat))
    ELSE Fold(Head(text)) = Fold(Head(pat)) /\ Like(Tail(text), Tail(pat))

\* The bound parameter f"%{entity_name}%"
LikePattern(entity_name) == <<"%">> \o entity_name \o <<"%">>

\* The ids of the mention rows with em.entity LIKE ?
Matching(entity_name) ==
    {i \in 1..Len(entity_metadata) :
        Like(entity_metadata[i].entity, LikePattern(entity_name))}

\* The CASE of get_entity_detail that gives a source its context.
ContextLabel(type, id) ==
    CASE type = "session" ->
           Lookup(sessions, id,
                  [i \in 1..Len(sessions) |-> Substr(sessions[i].summary, ContextBudget)])
      [] type = "knowledge" ->
           Lookup(knowledge, id,
                  [i \in 1..Len(knowledge) |->
                     knowledge[i].area \o <<":", " ">>
                       \o Substr(knowledge[i].summary, LabelBudget)])
      [] type = "fact" ->
           Lookup(facts, id,
                  [i \in 1..Len(facts) |-> Substr(facts[i].fact, ContextBudget)])
      [] OTHER -> NULL

DetailSource(em) ==
    [entity_type |-> em.entity_type, source_type |-> em.source_type,
     source_id |-> em.source_id,
     context |-> ContextLabel(em.source_type, em.source_id)]

\* First statement: the matching mentions, ORDER BY em.created_at DESC.
DetailSources(entity_name) ==
    LET ids == Matching(entity_name)
    IN  {[i \in DOMAIN o |-> DetailSource(entity_metadata[o[i]])] :
            o \in OrderByDesc(ids, [i \in ids |-> entity_metadata[i].created_at])}

DetailSourcesReads == {"entity_metadata", "sessions", "knowledge", "facts"}

\* source_conds: the relation has an endpoint that is one of the sources.
TouchesSource(er, sources) ==
    \E i \in DOMAIN sources :
        \/ er.from_type = sources[i].source_type /\ er.from_id = sources[i].source_id
        \/ er.to_type = sources[i].source_type /\ er.to_id = sources[i].source_id

\* Second statement: no ORDER BY, LIMIT 20: the rows come in any order.
DetailRelations(sources) ==
    LET ids == {i \in 1..Len(entry_relations) :
                   TouchesSource(entry_relations[i], sources)}
    IN  {[i \in DOMAIN s |->
            [from_type |-> entry_relations[s[i]].from_type,
             from_id |-> entry_relations[s[i]].from_id,
             to_type |-> entry_relations[s[i]].to_type,
             to_id |-> entry_relations[s[i]].to_id,
             relation |-> entry_relations[s[i]].relation]] :
            s \in {SqlLimit(o, DetailLimit) : o \in OrderByDesc(ids, [i \in ids |-> 0])}}

\* Mutant: the third statement without its WHERE.
DetailJoinOn_Unfiltered(a, b, entity_name) ==
    /\ entity_metadata[a].source_type = entity_metadata[b].source_type
    /\ entity_metadata[a].source_id = entity_metadata[b].source_id
    /\ entity_metadata[a].entity # entity_metadata[b].entity

\* The join condition and WHERE of the third statement.
DetailJoinOn(a, b, entity_name) ==
    /\ entity_metadata[a].source_type = entity_metadata[b].source_type
    /\ entity_metadata[a].source_id = entity_metadata[b].source_id
    /\ entity_metadata[a].entity # entity_metadata[b].entity
    /\ a \in Matching(entity_name)

\* Third statement: GROUP BY b.entity, b.entity_type, ORDER BY shared DESC,
\* LIMIT 20.
DetailCoOccurring(entity_name) ==
    LET ids == 1..Len(entity_metadata)
        join == {p \in ids \X ids : DetailJoinOn(p[1], p[2], entity_name)}
        key(p) == EntGroupKey(entity_metadata[p[2]])
        row(k) == [entity |-> k[1], entity_type |-> k[2],
                   shared |-> Cardinality({p \in join : key(p) = k})]
        R == {row(key(p)) : p \in join}
    IN  {SqlLimit(s, DetailLimit) : s \in OrderByDesc(R, [r \in R |-> r.shared])}

Detail(entity_name, sources, relations, co_occurring) ==
    [entity |-> entity_name, sources |-> sources, relations |-> relations,
     co_occurring |-> co_occurring]

get_entity_detail_ret(entity_name) ==
    IF ~_has_entities
      THEN {Returned("get_entity_detail", entity_name,
                     Detail(entity_name, <<>>, <<>>, <<>>))}
    ELSE IF ~(DetailSourcesReads \subseteq schema)
           \/ (_has_relations /\ "entry_relations" \notin schema)
      THEN {Raised("get_entity_detail", entity_name)}
    ELSE UNION {
           {Returned("get_entity_detail", entity_name,
                     Detail(entity_name, src, rels, co)) :
               rels \in (IF _has_relations /\ src # <<>>
                           THEN DetailRelations(src) ELSE {<<>>}),
               co \in DetailCoOccurring(entity_name)} :
           src \in DetailSources(entity_name)}

get_entity_detail(entity_name) ==
    /\ pc = "lib" /\ conn = "open"
    /\ ret' \in Again("get_entity_detail", entity_name, get_entity_detail_ret(entity_name))
    /\ Remember
    /\ UNCHANGED <<store, tables, conn, closes, mainVars>>

\* ----------------------------------------------------------- renderers
\* A renderer is "rich" (RichRenderer) or "plain" (PlainRenderer).  What a
\* render method printed is a sequence of items; a table item holds the
\* cell texts of its rows.

DigitChar == <<"0", "1", "2", "3", "4", "5", "6", "7", "8", "9">>

\* str(n) of a non-negative integer
RECURSIVE Str(_)
Str(n) == IF n < 10 THEN <<DigitChar[n + 1]>>
          ELSE Str(n \div 10) \o <<DigitChar[(n % 10) + 1]>>

\* The characters of a source type name.
TypeText(type) ==
    CASE type = "session" -> <<"s", "e", "s", "s", "i", "o", "n">>
      [] type = "knowledge" -> <<"k", "n", "o", "w", "l", "e", "d", "g", "e">>
      [] type = "fact" -> <<"f", "a", "c", "t">>

\* f"{type}:{id}"
FallbackLabel(type, id) == TypeText(type) \o <<":">> \o Str(id)

\* label or f"{type}:{id}": None and "" are both falsy.
LabelOr(label, type, id) ==
    IF label = NULL \/ label = Val(<<>>) THEN FallbackLabel(type, id) ELSE label.v

\* str.ljust(w)
Ljust(text, w) ==
    IF Len(text) >= w THEN text ELSE text \o [i \in 1..(w - Len(text)) |-> " "]

\* A cell as PlainRenderer._table prints it: str(x)[:w].ljust(w)
PlainCell(text, w) == Ljust(PySlice(text, w), w)

\* One row of the relations table.
RelationCells(kind, rel) ==
    IF kind = "rich"
      THEN [from |-> PySlice(LabelOr(rel.from_label, rel.from_type, rel.from_id),
                             RichLabelWidth),
            relation |-> rel.relation,
            to |-> PySlice(LabelOr(rel.to_label, rel.to_type, rel.to_id),
                           RichLabelWidth)]
      ELSE [from |-> PlainCell(PySlice(LabelOr(rel.from_label, rel.from_type,
                                               rel.from_id), PlainLabelWidth),
                               PlainLabelWidth),
            relation |-> PlainCell(rel.relation, PlainRelationWidth),
            to |-> PlainCell(PySlice(LabelOr(rel.to_label, rel.to_type, rel.to_id),
                                     PlainLabelWidth),
                             PlainLabelWidth)]

\* One row of the co-occurrence table.
CoCells(kind, co) ==
    IF kind = "rich"
      THEN [a |-> co.entity_a, b |-> co.entity_b, shared |-> Str(co.shared_sources)]
      ELSE [a |-> PlainCell(PySlice(co.entity_a, PlainEntityWidth), PlainEntityWidth),
            b |-> PlainCell(PySlice(co.entity_b, PlainEntityWidth), PlainEntityWidth),
            shared |-> PlainCell(Str(co.shared_sources), PlainSharedWidth)]

\* The entity tree: per type its item count, the first 15 items (the
\* reference count shown only when > 1) and the number left out.
EntityTree(entities) ==
    [t \in DOMAIN entities |->
        [count |-> Len(entities[t]),
         items |-> [i \in 1..Min(ItemsShown, Len(entities[t])) |->
                      [entity |-> entities[t][i].entity,
                       refs |-> IF entities[t][i].refs > 1
                                  THEN Val(entities[t][i].refs) ELSE NULL]],
         more |-> IF Len(entities[t]) > ItemsShown
                    THEN Len(entities[t]) - ItemsShown ELSE 0]]

Heading(view) == [kind |-> "heading", view |-> view]
Placeholder(view) == [kind |-> "placeholder", view |-> view]

\* An outcome of a render method: what it printed, and whether it raised.
Printed(out) == [raised |-> FALSE, out |-> out]
Failed(out) == [raised |-> TRUE, out |-> out]

\* The relations part of render_graph, given the result of get_relations.
RelationsPart(kind, relations) ==
    IF relations # <<>>
      THEN <<[kind |-> "relations",
              rows |-> [i \in 1..Min(RelationsShown, Len(relations)) |->
                          RelationCells(kind, relations[i])]]>>
      ELSE IF kind = "rich" THEN <<[kind |-> "no_relations"]>> ELSE <<>>

\* The co-occurrence part of render_graph, given get_co_occurrences(20).
CoPart(kind, co_occ) ==
    IF co_occ # <<>>
      THEN <<[kind |-> "co_occurrences",
              rows |-> [i \in 1..(IF kind = "rich" THEN Min(GraphCoLimit, Len(co_occ))
                                  ELSE Len(co_occ)) |-> CoCells(kind, co_occ[i])]]>>
      ELSE <<>>

render_graph_ret(kind) ==
    UNION {
      IF e.raised THEN {Failed(<<Heading("graph")>>)}
      ELSE IF e.val = <<>> THEN {Printed(<<Heading("graph"), Placeholder("graph")>>)}
      ELSE LET head == <<Heading("graph"),
                         [kind |-> "entities", tree |-> EntityTree(e.val)]>>
           IN UNION {
                IF r.raised THEN {Failed(head)}
                ELSE {IF c.raised
                        THEN Failed(head \o RelationsPart(kind, r.val))
                        ELSE Printed(head \o RelationsPart(kind, r.val)
                                          \o CoPart(kind, c.val)) :
                        c \in get_co_occurrences_ret(GraphCoLimit)} :
                r \in get_relations_ret} :
      e \in get_entities_ret(GraphEntityLimit)}

\* A render method called on a renderer built over the open MemoryDB.
Rendering(op, arg, outcomes) ==
    /\ pc = "lib" /\ conn = "open"
    /\ \E o \in outcomes :
          /\ output' = o.out
          /\ ret' = IF o.raised THEN Raised(op, arg) ELSE Returned(op, arg, <<>>)
    /\ UNCHANGED <<prior, store, tables, conn, closes, args, pc, exitStatus>>

render_graph(kind) == Rendering("render_graph", kind, render_graph_ret(kind))

\* render_timeline: the table of get_timeline(30); RichRenderer adds the
\* activity chart of the entries per date (the last 14 dates).
TimelineCells(kind, e) ==
    IF kind = "rich"
      THEN [date |-> e.created_at, type |-> e.type,
            summary |-> PySlice(e.summary, RichSummaryWidth)]
      ELSE [date |-> e.created_at, type |-> e.type,
            summary |-> PlainCell(PySlice(e.summary, PlainSummaryWidth),
                                  PlainSummaryWidth)]

Activity(entries) ==
    LET dates == {entries[i].created_at : i \in DOMAIN entries}
        shown == {d \in dates :
                    Cardinality({x \in dates : x > d}) < ActivityDates}
    IN  [kind |-> "activity",
         counts |-> [d \in shown |->
                       Cardinality({i \in DOMAIN entries : entries[i].created_at = d})]]

render_timeline_ret(kind) ==
    {IF t.raised THEN Failed(<<Heading("timeline")>>)
     ELSE IF t.val = <<>>
       THEN Printed(<<Heading("timeline"), Placeholder("timeline")>>)
     ELSE Printed(<<Heading("timeline"),
                    [kind |-> "timeline",
                     rows |-> [i \in DOMAIN t.val |-> TimelineCells(kind, t.val[i])]]>>
                  \o (IF kind = "rich" THEN <<Activity(t.val)>> ELSE <<>>)) :
        t \in get_timeline_ret(TimelineLimit)}

render_timeline(kind) ==
    Rendering("render_timeline", kind, render_timeline_ret(kind))

\* sum(stats.values())
RECURSIVE SumOver(_, _)
SumOver(f, D) ==
    IF D = {} THEN 0
    ELSE LET t == CHOOSE x \in D : TRUE IN f[t] + SumOver(f, D \ {t})

Max(a, b) == IF a > b THEN a ELSE b

\* The bar chart of get_top_entities(15): a bar of
\* max(1, int(ref_count / max_refs * width)) characters per entity.
TopBars(kind, top) ==
    LET max_refs == CHOOSE m \in {top[i].ref_count : i \in DOMAIN top} :
                       \A i \in DOMAIN top : top[i].ref_count <= m
        width == IF kind = "rich" THEN RichBarWidth ELSE PlainBarWidth
    IN  [kind |-> "top",
         rows |-> [i \in DOMAIN top |->
                     [bar |-> Max(1, (top[i].ref_count * width) \div Max(max_refs, 1)),
                      entity |-> top[i].entity, refs |-> top[i].ref_count]]]

\* render_stats: the counts, the number of entities per type, and the top
\* entities or, when every count is 0, the "No data yet" placeholder.
render_stats_ret(kind) ==
    UNION {
      IF st.raised THEN {Failed(<<Heading("stats")>>)}
      ELSE LET counts == <<Heading("stats"), [kind |-> "counts", stats |-> st.val]>>
           IN UNION {
                IF e.raised THEN {Failed(counts)}
                ELSE LET cats == counts \o
                           (IF e.val # <<>>
                              THEN <<[kind |-> "categories",
                                      count |-> [t \in DOMAIN e.val |-> Len(e.val[t])]]>>
                              ELSE <<>>)
                     IN {IF top.raised THEN Failed(cats)
                         ELSE IF top.val # <<>>
                           THEN Printed(cats \o <<TopBars(kind, top.val)>>)
                         ELSE IF SumOver(st.val, DOMAIN st.val) = 0
                           THEN Printed(cats \o <<Placeholder("stats")>>)
                         ELSE Printed(cats) :
                           top \in get_top_entities_ret(StatsTopLimit)} :
                e \in get_entities_ret(StatsEntityLimit)} :
      st \in get_stats_ret}

render_stats(kind) == Rendering("render_stats", kind, render_stats_ret(kind))

\* render_explore: the "not found" placeholder when the detail has no
\* sources, relations or co-occurring entities, else its tree.
ExploreTree(detail) ==
    [kind |-> "explore",
     sources |-> [i \in DOMAIN detail.sources |->
                    [source_type |-> detail.sources[i].source_type,
                     source_id |-> detail.sources[i].source_id,
                     ctx |-> LabelOr(detail.sources[i].context,
                                     detail.sources[i].source_type,
                                     detail.sources[i].source_id)]],
     relations |-> [i \in DOMAIN detail.relations |->
                      [from |-> FallbackLabel(detail.relations[i].from_type,
                                              detail.relations[i].from_id),
                       relation |-> detail.relations[i].relation,
                       to |-> FallbackLabel(detail.relations[i].to_type,
                                            detail.relations[i].to_id)]],
     co_occurring |-> detail.co_occurring]

render_explore_ret(kind, entity_name) ==
    {IF d.raised THEN Failed(<<Heading("explore")>>)
     ELSE IF d.val.sources = <<>> /\ d.val.relations = <<>> /\ d.val.co_occurring = <<>>
       THEN Printed(<<Heading("explore"), Placeholder("explore")>>)
     ELSE Printed(<<Heading("explore"), ExploreTree(d.val)>>) :
        d \in get_entity_detail_ret(entity_name)}

render_explore(kind, entity_name) ==
    Rendering("render_explore", <<kind, entity_name>>,
              render_explore_ret(kind, entity_name))

\* One render method after another: the second runs only if the first
\* did not raise.
Then(first, second) ==
    {IF f.raised THEN f
     ELSE [raised |-> g.raised, out |-> f.out \o g.out] :
        f \in first, g \in second}

\* render_full: the banner, then render_stats, render_graph, render_timeline.
render_full_ret(kind) ==
    Then(Then(Then({Printed(<<Heading("full")>>)}, render_stats_ret(kind)),
              render_graph_ret(kind)),
         render_timeline_ret(kind))

render_full(kind) == Rendering("render_full", kind, render_full_ret(kind))

\* ------------------------------------------------------------------ main

Commands == {"full", "graph", "timeline", "stats", "explore"}

\* The module body: when rich cannot be imported the name Text is unbound,
\* and the annotation "-> Text" of RichRenderer._type_badge raises
\* NameError on interpreters that evaluate annotations at definition time;
\* on interpreters that defer them the module loads.
import_module ==
    /\ pc = "import"
    /\ \/ pc' = "parse" /\ UNCHANGED exitStatus
       \/ ~args.rich /\ pc' = "exited" /\ exitStatus' = 1
    /\ UNCHANGED <<prior, store, tables, conn, closes, args, output, ret>>

\* parser.error when explore has no entity: usage message, exit status 2.
main_parse ==
    /\ pc = "parse"
    /\ IF args.command = "explore" /\ (args.entity = NULL \/ args.entity = Val(<<>>))
         THEN pc' = "exited" /\ exitStatus' = 2
         ELSE pc' = "open" /\ UNCHANGED exitStatus
    /\ UNCHANGED <<prior, store, tables, conn, closes, args, output, ret>>

\* db = MemoryDB(args.db); FileNotFoundError -> sys.exit(1)
main_open ==
    /\ pc = "open"
    /\ IF ~fileExists
         THEN /\ pc' = "exited" /\ exitStatus' = 1
              /\ UNCHANGED <<tables, conn>>
         ELSE /\ conn' = "open"
              /\ tables' = _ensure_tables_exist
              /\ pc' = "check"
              /\ UNCHANGED exitStatus
    /\ UNCHANGED <<prior, store, closes, args, output, ret>>

\* Mutant: the availability of entity_metadata is not checked.
main_check_Unchecked ==
    /\ pc = "check"
    /\ pc' = "render"
    /\ UNCHANGED <<prior, store, tables, conn, closes, args, output, ret, exitStatus>>

\* graph and explore need entity_metadata: message, sys.exit(1).
main_check ==
    /\ pc = "check"
    /\ IF ~tables["entity_metadata"] /\ args.command \in {"graph", "explore"}
         THEN pc' = "exited" /\ exitStatus' = 1
         ELSE pc' = "render" /\ UNCHANGED exitStatus
    /\ UNCHANGED <<prior, store, tables, conn, closes, args, output, ret>>

\* PlainRenderer if args.plain or not RICH_AVAILABLE, else RichRenderer.
RendererKind == IF args.plain \/ ~args.rich THEN "plain" ELSE "rich"

ViewOutcomes ==
    CASE args.command = "graph" -> render_graph_ret(RendererKind)
      [] args.command = "timeline" -> render_timeline_ret(RendererKind)
      [] args.command = "stats" -> render_stats_ret(RendererKind)
      [] args.command = "explore" -> render_explore_ret(RendererKind, args.entity.v)
      [] OTHER -> render_full_ret(RendererKind)

\* The try block: the view is rendered; it may raise.
main_render ==
    /\ pc = "render"
    /\ \E o \in ViewOutcomes :
          /\ output' = o.out
          /\ ret' = IF o.raised THEN Raised("render", RendererKind)
                    ELSE Returned("render", RendererKind, <<>>)
    /\ pc' = "finally"
    /\ UNCHANGED <<prior, store, tables, conn, closes, args, exitStatus>>

\* MemoryDB.close
close ==
    /\ conn' = "closed"
    /\ closes' = closes + 1

\* finally: db.close(); then main returns (status 0) or the exception
\* propagates out of main (traceback, status 1).
main_finally ==
    /\ pc = "finally"
    /\ close
    /\ pc' = "exited"
    /\ exitStatus' = IF ret.raised THEN 1 ELSE 0
    /\ UNCHANGED <<prior, store, tables, args, output, ret>>

\* --------------------------------------------------------- specifications

MentionRows(names, types, sources) ==
    {[entity |-> n, entity_type |-> t, source_type |-> s[1], source_id |-> s[2],
      created_at |-> 1] :
        n \in names, t \in types, s \in sources}

\* The state after MemoryDB(db_path) returned, over a store file holding
\* the given tables.
Connected(sch, ss, kn, fa, em, er) ==
    /\ fileExists = TRUE
    /\ schema = sch
    /\ sessions = ss /\ knowledge = kn /\ facts = fa
    /\ entity_metadata = em /\ entry_relations = er
    /\ tables = _ensure_tables_exist
    /\ conn = "open" /\ closes = 0
    /\ args = [command |-> "none", entity |-> NULL]
    /\ pc = "lib" /\ exitStatus = -1 /\ output = <<>>
    /\ ret = NoRet

Opened(sch, ss, kn, fa, em, er) ==
    Connected(sch, ss, kn, fa, em, er) /\ prior = Untracked

\* Any mention table, the other tables empty; or no mention table.
InitCo ==
    \/ \E em \in SeqsUpTo(MentionRows(Names, EntityTypes, Sources), MaxMentions) :
          Opened(AllTables, <<>>, <<>>, <<>>, em, <<>>)
    \/ Opened(AllTables \ {"entity_metadata"}, <<>>, <<>>, <<>>, <<>>, <<>>)

NextCo == \E limit \in Limits : get_co_occurrences(limit)

SpecCo == InitCo /\ [][NextCo]_vars

\* Any mention table over one source, the other tables empty; or no
\* mention table.
InitEnt ==
    \/ \E em \in SeqsUpTo(MentionRows(Names, EntityTypes, {<<"knowledge", 1>>}),
                           MaxMentions) :
          Opened(AllTables, <<>>, <<>>, <<>>, em, <<>>)
    \/ Opened(AllTables \ {"entity_metadata"}, <<>>, <<>>, <<>>, <<>>, <<>>)

NextEnt ==
    \E limit \in Limits : get_entities(limit) \/ get_top_entities(limit)

SpecEnt == InitEnt /\ [][NextEnt]_vars

SessionRows(times, texts) == {[created_at |-> t, summary |-> x] : t \in times, x \in texts}

KnowledgeRows(times, areas, texts) ==
    {[area |-> a, summary |-> x, updated_at |-> t] :
        a \in areas, x \in texts, t \in times}

\* One session and one knowledge area of the same timestamp.
SessionRowsOne == <<[created_at |-> 1, summary |-> <<"s">>]>>
KnowledgeRowsOne == <<[area |-> <<"k">>, summary |-> <<"s">>, updated_at |-> 1]>>

\* Any session and knowledge tables, either of them possibly absent.
InitTime ==
    \E ss \in SeqsUpTo(SessionRows(Times, {<<"s">>}), MaxSessions),
       kn \in SeqsUpTo(KnowledgeRows(Times, {<<"k">>}, {<<"s">>}), MaxKnowledge),
       absent \in SUBSET {"sessions", "knowledge"} :
        /\ "sessions" \in absent => ss = <<>>
        /\ "knowledge" \in absent => kn = <<>>
        /\ Opened(AllTables \ absent, ss, kn, <<>>, <<>>, <<>>)

NextTime == \E limit \in Limits : get_timeline(limit)

SpecTime == InitTime /\ [][NextTime]_vars

RelationRows(froms, tos, rels, times) ==
    {[from_type |-> f[1], from_id |-> f[2], to_type |-> t[1], to_id |-> t[2],
      relation |-> r, created_at |-> c] :
        f \in froms, t \in tos, r \in rels, c \in times}

FactRows(texts) == {[fact |-> x] : x \in texts}

Kinds == {"rich", "plain"}

\* Endpoints of the relation rows: session#1 and fact#1 may exist, fact#9
\* never does.
FromEnds == {<<"session", 1>>, <<"fact", 9>>}
ToEnds == {<<"fact", 1>>, <<"fact", 9>>}

\* All five tables exist; any relation rows over the ends, with or without the
\* rows they point at, and with or without an entity mention.
InitRel ==
    \E ss \in SeqsUpTo(SessionRows({1}, {<<"s">>, <<>>}), 1),
       fa \in SeqsUpTo(FactRows({<<"f">>}), 1),
       em \in SeqsUpTo(MentionRows({auth}, {"concept"}, {<<"session", 1>>}), 1),
       er \in SeqsUpTo(RelationRows(FromEnds, ToEnds, {<<"r">>}, 1..2), MaxRelations) :
        Opened(AllTables, ss, <<>>, fa, em, er)

NextRel == get_relations \/ \E kind \in Kinds : render_graph(kind)

SpecRel == InitRel /\ [][NextRel]_vars

\* Entity names a client asks get_entity_detail about.
Queries == {auth, <<"t">>, <<"z">>}

\* Any combination of present and absent tables, each present table
\* holding up to MaxRows rows.
InitTables ==
    \E sch \in SUBSET AllTables,
       ss \in SeqsUpTo(SessionRows({1}, {<<"s">>}), MaxRows),
       kn \in SeqsUpTo(KnowledgeRows({1}, {<<"k">>}, {<<"s">>}), MaxRows),
       fa \in SeqsUpTo(FactRows({<<"f">>}), MaxRows),
       em \in SeqsUpTo(MentionRows(Names, {"concept"}, {<<"session", 1>>}), MaxRows),
       er \in SeqsUpTo(RelationRows({<<"session", 1>>}, ToEnds, {<<"r">>}, {1}),
                       MaxRows) :
        /\ "sessions" \notin sch => ss = <<>>
        /\ "knowledge" \notin sch => kn = <<>>
        /\ "facts" \notin sch => fa = <<>>
        /\ "entity_metadata" \notin sch => em = <<>>
        /\ "entry_relations" \notin sch => er = <<>>
        /\ Opened(sch, ss, kn, fa, em, er)

\* The entity name in upper case.
AUTH == <<"A", "U", "T", "H">>

\* Names of the mentions, and the entity names a client explores: one that
\* is a name, one with the character "_", and one that occurs in no name.
DetailNames == {auth, AUTH, jwt}
DetailQueries == {auth, <<"j", "_", "t">>, <<"z">>}

\* All five tables exist, or all but the mention table; any mentions of the
\* names in session#1, with or without the session row, and any relation
\* row from session#1.
InitDetail ==
    \E ss \in SeqsUpTo(SessionRows({1}, {<<"s">>}), 1),
       em \in SeqsUpTo(MentionRows(DetailNames, {"concept"}, {<<"session", 1>>}),
                       MaxDetailMentions),
       er \in SeqsUpTo(RelationRows({<<"session", 1>>}, {<<"fact", 9>>}, {<<"r">>},
                                    {1}), 1),
       present \in BOOLEAN :
        /\ ~present => em = <<>>
        /\ Opened(IF present THEN AllTables ELSE AllTables \ {"entity_metadata"},
                  ss, <<>>, <<>>, em, er)

NextDetail ==
    \E q \in DetailQueries :
        \/ get_entity_detail(q)
        \/ \E kind \in Kinds : render_explore(kind, q)

SpecDetail == InitDetail /\ [][NextDetail]_vars

NextTables ==
    \/ get_stats
    \/ \E limit \in Limits : get_entities(limit)
    \/ \E limit \in Limits : get_top_entities(limit)
    \/ get_relations
    \/ \E limit \in Limits : get_co_occurrences(limit)
    \/ \E limit \in Limits : get_timeline(limit)
    \/ \E q \in Queries : get_entity_detail(q)

SpecTables == InitTables /\ [][NextTables]_vars

\* A text of n characters.
TextOf(n) == [i \in 1..n |-> "x"]

\* Lengths of the stored texts: short, exactly the label budget, one more,
\* and one more than the context budget.
TextLens == {1, LabelBudget, LabelBudget + 1, ContextBudget + 1}

\* The source rows a label is taken from.
LabelEnds == {<<"session", 1>>, <<"knowledge", 1>>, <<"fact", 1>>}

\* All five tables exist; one session, one knowledge area and one fact
\* with texts of any of the lengths, at most one relation row between two
\* of them and at most one mention in one of them.
InitLabels ==
    \E ls \in TextLens, la \in TextLens, lk \in TextLens, lf \in TextLens,
       em \in SeqsUpTo(MentionRows({auth}, {"concept"}, LabelEnds), 1),
       er \in SeqsUpTo(RelationRows(LabelEnds, {<<"fact", 1>>}, {<<"r">>}, {1}), 1) :
        Opened(AllTables,
               <<[created_at |-> 1, summary |-> TextOf(ls)]>>,
               <<[area |-> TextOf(la), summary |-> TextOf(lk), updated_at |-> 1]>>,
               <<[fact |-> TextOf(lf)]>>,
               em, er)

NextLabels == get_relations \/ get_entity_detail(auth)

SpecLabels == InitLabels /\ [][NextLabels]_vars

\* A client that issues any sequence of queries on one open store and
\* keeps each result to compare it with the next.  All five tables exist;
\* one session, one knowledge area, any mentions of the names in
\* knowledge#1 and any relation rows from session#1, all of one timestamp,
\* MaxRepeatRows rows together.
InitRepeat ==
    \E em \in SeqsUpTo(MentionRows(Names, {"concept"}, {<<"knowledge", 1>>}),
                       MaxRepeatRows),
       er \in SeqsUpTo(RelationRows({<<"session", 1>>}, ToEnds, {<<"r">>}, {1}),
                       MaxRepeatRows) :
        /\ Len(em) + Len(er) <= MaxRepeatRows
        /\ Connected(AllTables, SessionRowsOne, KnowledgeRowsOne, <<>>, em, er)
        /\ prior = NoRet

NextRepeat ==
    \/ get_stats
    \/ \E limit \in Limits : get_entities(limit)
    \/ \E limit \in Limits : get_top_entities(limit)
    \/ get_relations
    \/ \E limit \in Limits : get_co_occurrences(limit)
    \/ \E limit \in Limits : get_timeline(limit)
    \/ \E q \in Queries : get_entity_detail(q)

SpecRepeat == InitRepeat /\ [][NextRepeat]_vars

\* The command lines argparse accepts, with rich importable or not.
ArgLines ==
    [command : Commands, entity : {NULL, Val(<<>>), Val(auth)},
     plain : BOOLEAN, rich : BOOLEAN]

\* One row per table.
OneSession == <<[created_at |-> 1, summary |-> <<"s">>]>>
OneKnowledge == <<[area |-> <<"k">>, summary |-> <<"s">>, updated_at |-> 2]>>
OneFact == <<[fact |-> <<"f">>]>>
OneMention == <<[entity |-> auth, entity_type |-> "concept",
                 source_type |-> "session", source_id |-> 1, created_at |-> 1]>>
OneRelation == <<[from_type |-> "session", from_id |-> 1, to_type |-> "fact",
                  to_id |-> 9, relation |-> <<"r">>, created_at |-> 1]>>

\* The process starts: any command line; the store path names no file, or
\* a store with any combination of tables, each empty or holding one row.
InitMain ==
    /\ args \in ArgLines
    /\ fileExists \in BOOLEAN
    /\ schema \in SUBSET AllTables
    /\ sessions \in {<<>>, OneSession}
    /\ knowledge \in {<<>>, OneKnowledge}
    /\ facts \in {<<>>, OneFact}
    /\ entity_metadata \in {<<>>, OneMention}
    /\ entry_relations \in {<<>>, OneRelation}
    /\ ~fileExists => schema = {}
    /\ "sessions" \notin schema => sessions = <<>>
    /\ "knowledge" \notin schema => knowledge = <<>>
    /\ "facts" \notin schema => facts = <<>>
    /\ "entity_metadata" \notin schema => entity_metadata = <<>>
    /\ "entry_relations" \notin schema => entry_relations = <<>>
    /\ tables = [t \in TableNames |-> FALSE]
    /\ conn = "none" /\ closes = 0
    /\ pc = "import" /\ exitStatus = -1 /\ output = <<>>
    /\ ret = NoRet /\ prior = Untracked

NextMain ==
    \/ import_module
    \/ main_parse
    \/ main_open
    \/ main_check
    \/ main_render
    \/ main_finally

SpecMain == InitMain /\ [][NextMain]_vars

\* ------------------------------------------------- claims: co-occurrences

CoReturned == ret.op = "get_co_occurrences" /\ ~ret.raised

\* The sources shared by the mentions of two entity names.
SourcesOf(name) ==
    {<<entity_metadata[i].source_type, entity_metadata[i].source_id>> :
        i \in {j \in 1..Len(entity_metadata) : entity_metadata[j].entity = name}}

\* C1: no edge returned by get_co_occurrences has the same entity name on
\* both sides.
C1_NoSelfPairs ==
    CoReturned =>
        \A i \in 1..Len(ret.val) : ret.val[i].entity_a # ret.val[i].entity_b

\* C2: get_co_occurrences never returns both an edge (A, B) and an edge
\* (B, A): each unordered pair of entity names is reported at most once.
C2_NoReversedPairs ==
    CoReturned =>
        \A i, j \in 1..Len(ret.val) :
            i # j => ~(/\ ret.val[i].entity_a = ret.val[j].entity_b
                       /\ ret.val[i].entity_b = ret.val[j].entity_a)

\* C3: an edge between two entities is reported only if their mentions
\* share at least two distinct (source type, source id) pairs, and every
\* reported shared-source-count is >= 2.
C3_TwoSharedSources ==
    CoReturned =>
        \A i \in 1..Len(ret.val) :
            /\ ret.val[i].shared_sources >= 2
            /\ ret.val[i].entity_a # ret.val[i].entity_b =>
                 Cardinality(SourcesOf(ret.val[i].entity_a)
                               \cap SourcesOf(ret.val[i].entity_b)) >= 2

\* The mention table of the scenario: one mention of auth and one of jwt
\* in knowledge#1 and one of each in knowledge#2, ids in any order.
C4_Scenario ==
    /\ Len(entity_metadata) = 4
    /\ \A n \in {auth, jwt}, k \in {1, 2} :
          \E i \in 1..4 : /\ entity_metadata[i].entity = n
                          /\ entity_metadata[i].source_type = "knowledge"
                          /\ entity_metadata[i].source_id = k

\* C4: in the scenario, for every order of the four mention ids,
\* get_co_occurrences reports the pair (auth, jwt) with
\* shared-source-count 2.
C4_ScenarioReported ==
    (CoReturned /\ C4_Scenario /\ ret.arg >= 1) =>
        \E i \in 1..Len(ret.val) :
            /\ {ret.val[i].entity_a, ret.val[i].entity_b} = {auth, jwt}
            /\ ret.val[i].shared_sources = 2

\* ------------------------------------------------------ claims: entities

\* The number of mention rows with exactly this (name, type) pair.
MentionCount(name, type) ==
    Cardinality({i \in 1..Len(entity_metadata) :
                    /\ entity_metadata[i].entity = name
                    /\ entity_metadata[i].entity_type = type})

RECURSIVE SumLen(_, _)
SumLen(f, D) ==
    IF D = {} THEN 0
    ELSE LET t == CHOOSE x \in D : TRUE IN Len(f[t]) + SumLen(f, D \ {t})

\* C5: each {entity, refs} item get_entities reports under a type has refs
\* equal to the number of mention rows with exactly that (name, type),
\* refs is never 0, and at most `limit` items are reported over all types.
C5_EntityRefs ==
    (ret.op = "get_entities" /\ ~ret.raised) =>
        /\ \A t \in DOMAIN ret.val : \A i \in 1..Len(ret.val[t]) :
              /\ ret.val[t][i].refs = MentionCount(ret.val[t][i].entity, t)
              /\ ret.val[t][i].refs # 0
        /\ SumLen(ret.val, DOMAIN ret.val) <= ret.arg

\* get_entities returned items under two types, one with refs 2, with the
\* limit cutting off a group.
C5_Witness ==
    /\ ret.op = "get_entities" /\ ~ret.raised
    /\ Cardinality(DOMAIN ret.val) = 2
    /\ \E t \in DOMAIN ret.val : \E i \in 1..Len(ret.val[t]) : ret.val[t][i].refs = 2
    /\ SumLen(ret.val, DOMAIN ret.val) = ret.arg
    /\ Cardinality({EntGroupKey(entity_metadata[i]) :
                      i \in 1..Len(entity_metadata)}) > ret.arg

\* ------------------------------------------------------ claims: timeline

\* C9: the list returned by get_timeline has at most `limit` entries and
\* every adjacent pair has the earlier entry's timestamp >= the later's.
C9_TimelineOrdered ==
    (ret.op = "get_timeline" /\ ~ret.raised) =>
        /\ Len(ret.val) <= ret.arg
        /\ \A i \in 1..(Len(ret.val) - 1) :
              ret.val[i].created_at >= ret.val[i + 1].created_at

\* get_timeline returned `limit` = 2 entries out of more, a knowledge
\* entry ahead of an older session entry.
C9_Witness ==
    /\ ret.op = "get_timeline" /\ ~ret.raised
    /\ ret.arg = 2 /\ Len(ret.val) = 2
    /\ Len(sessions) + Len(knowledge) > 2
    /\ ret.val[1].type = "knowledge" /\ ret.val[2].type = "session"
    /\ ret.val[1].created_at > ret.val[2].created_at

\* ----------------------------------------------------- claims: relations

\* The source row an endpoint references exists.
EndpointExists(type, id) ==
    CASE type = "session" -> id \in 1..Len(sessions)
      [] type = "knowledge" -> id \in 1..Len(knowledge)
      [] type = "fact" -> id \in 1..Len(facts)
      [] OTHER -> FALSE

Orderings(S) ==
    {o \in [1..Cardinality(S) -> S] :
        \A i, j \in 1..Cardinality(S) : i # j => o[i] # o[j]}

\* The text a renderer shows for "<type>:<id>" in a label cell.
ShownFallback(kind, type, id) ==
    IF kind = "rich" THEN FallbackLabel(type, id)
    ELSE Ljust(FallbackLabel(type, id), PlainLabelWidth)

\* C8 (query): where the source tables exist, get_relations does not raise
\* and returns every relation edge, up to its limit, whether or not the
\* rows its endpoints reference exist; an endpoint's label is absent
\* exactly when the referenced row does not exist.
C8_RelationsKept ==
    (ret.op = "get_relations" /\ RelationsReads \subseteq schema) =>
        /\ ~ret.raised
        /\ Len(ret.val) = Min(Len(entry_relations), RelationsLimit)
        /\ \E o \in Orderings(1..Len(entry_relations)) :
              \A j \in 1..Len(ret.val) :
                 LET er == entry_relations[o[j]]
                     r == ret.val[j]
                 IN  /\ <<r.from_type, r.from_id, r.to_type, r.to_id, r.relation>>
                          = <<er.from_type, er.from_id, er.to_type, er.to_id,
                              er.relation>>
                     /\ (r.from_label = NULL) <=> ~EndpointExists(er.from_type, er.from_id)
                     /\ (r.to_label = NULL) <=> ~EndpointExists(er.to_type, er.to_id)

\* C8 (renderers): where the source tables exist, render_graph does not
\* raise, and when it prints the relations table (there is an entity)
\* every edge is a row, up to the 30 shown, and a row shows an endpoint
\* whose referenced row does not exist as "<type>:<id>".
C8_FallbackShown ==
    (ret.op = "render_graph" /\ RelationsReads \subseteq schema) =>
        /\ ~ret.raised
        /\ (entity_metadata # <<>> /\ entry_relations # <<>>) =>
              /\ Len(output) >= 3 /\ output[3].kind = "relations"
              /\ Len(output[3].rows) = Min(Len(entry_relations), RelationsShown)
              /\ \E o \in Orderings(1..Len(entry_relations)) :
                    \A j \in 1..Len(output[3].rows) :
                       LET er == entry_relations[o[j]]
                           row == output[3].rows[j]
                       IN  /\ ~EndpointExists(er.from_type, er.from_id) =>
                                row.from = ShownFallback(ret.arg, er.from_type, er.from_id)
                           /\ ~EndpointExists(er.to_type, er.to_id) =>
                                row.to = ShownFallback(ret.arg, er.to_type, er.to_id)

\* C8: a relation edge with a missing endpoint is still returned with all
\* other edges, its label absent, and both renderers show "<type>:<id>".
C8_MissingEndpoint == C8_RelationsKept /\ C8_FallbackShown

\* The scenario: session#1 exists, fact#9 does not, an edge session#1 ->
\* fact#9 and a second edge; get_relations returned both.
C8_Witness ==
    /\ ret.op = "get_relations" /\ ~ret.raised
    /\ Len(sessions) = 1 /\ Len(ret.val) = 2
    /\ \E j \in 1..2 :
          /\ ret.val[j].from_type = "session" /\ ret.val[j].from_id = 1
          /\ ret.val[j].to_type = "fact" /\ ret.val[j].to_id = 9
          /\ ret.val[j].from_label = Val(<<"s">>)
          /\ ret.val[j].to_label = NULL

\* The plain renderer printed the relations table with such an edge.
C8_WitnessShown ==
    /\ ret.op = "render_graph" /\ ret.arg = "plain" /\ ~ret.raised
    /\ Len(output) >= 3 /\ output[3].kind = "relations"
    /\ \E j \in 1..Len(output[3].rows) :
          /\ output[3].rows[j].from = Ljust(<<"s">>, PlainLabelWidth)
          /\ output[3].rows[j].to = Ljust(<<"f", "a", "c", "t", ":", "9">>, PlainLabelWidth)

\* ------------------------------------------------ claims: absent tables

DerivationQueries ==
    {"get_stats", "get_entities", "get_top_entities", "get_relations",
     "get_co_occurrences", "get_timeline", "get_entity_detail"}

\* C7: for every combination of present and absent tables, every
\* derivation query returns a result without raising; in particular
\* get_relations and get_entity_detail do not fail when the relation or
\* mention table is present but sessions, knowledge or facts is absent.
C7_NoQueryRaises == ret.op \in DerivationQueries => ~ret.raised

\* ---------------------------------------------------------- claims: main

\* C6: in every run of main() in which the store connection was opened,
\* the connection is closed exactly once before the process exits, on
\* every exit path.
C6_ClosedOnExit ==
    (pc = "exited" /\ conn # "none") => (conn = "closed" /\ closes = 1)

NoEntityArgument ==
    args.command = "explore" /\ (args.entity = NULL \/ args.entity = Val(<<>>))

MentionTableMissing ==
    args.command \in {"graph", "explore"} /\ "entity_metadata" \notin schema

\* C10: when the store path is not an existing file, or explore has no
\* entity argument, or graph/explore is asked while the entity-mention
\* table is absent, no view output is rendered and the exit status is
\* non-zero; explore without an entity argument never opens the store.
C10_FatalExits ==
    /\ (~fileExists \/ NoEntityArgument \/ MentionTableMissing) =>
          /\ output = <<>>
          /\ pc = "exited" => exitStatus > 0
    /\ NoEntityArgument => conn = "none"

\* graph was asked of an existing store without the mention table: the
\* process exited with status 1 after opening the store.
C10_Witness ==
    /\ pc = "exited" /\ exitStatus = 1 /\ output = <<>>
    /\ fileExists /\ args.command = "graph" /\ args.rich
    /\ "entity_metadata" \notin schema /\ conn = "open"

\* ------------------------------------------------- claims: empty stores

\* The store file exists and every table is empty or absent.
EmptyStore ==
    /\ fileExists
    /\ sessions = <<>> /\ knowledge = <<>> /\ facts = <<>>
    /\ entity_metadata = <<>> /\ entry_relations = <<>>

\* What each view prints when there is nothing to show: its heading, for
\* stats the counts (all 0), and its empty-state placeholder.
EmptyStats ==
    <<Heading("stats"), [kind |-> "counts", stats |-> [tbl \in AllTables |-> 0]],
      Placeholder("stats")>>

EmptyGraph == <<Heading("graph"), Placeholder("graph")>>

EmptyTimeline == <<Heading("timeline"), Placeholder("timeline")>>

EmptyView(command) ==
    CASE command = "stats" -> EmptyStats
      [] command = "timeline" -> EmptyTimeline
      [] command = "full" ->
           <<Heading("full")>> \o EmptyStats \o EmptyGraph \o EmptyTimeline

\* C11: for a store in which every table is empty or absent, the views
\* full, timeline and stats complete with exit status 0, raise no
\* exception and render only empty-state placeholders; full runs stats,
\* graph, timeline in that order.
C11_EmptyStoreDegrades ==
    (EmptyStore /\ args.command \in {"full", "timeline", "stats"}
       /\ pc = "exited") =>
        /\ exitStatus = 0
        /\ ~ret.raised
        /\ output = EmptyView(args.command)

\* The same, for the runs in which the module body loaded.
C11_DegradesOnceLoaded ==
    (EmptyStore /\ args.command \in {"full", "timeline", "stats"}
       /\ pc = "exited" /\ conn # "none") =>
        /\ exitStatus = 0
        /\ ~ret.raised
        /\ output = EmptyView(args.command)

\* ------------------------------------------------ claims: entity detail

NotFound == <<Heading("explore"), Placeholder("explore")>>

\* C12 (query): for a query that matches no mention name,
\* get_entity_detail returns sources, relations and co_occurring all
\* empty, whatever the relation table contains.
C12_DetailEmpty ==
    (ret.op = "get_entity_detail" /\ Matching(ret.arg) = {}) =>
        /\ ~ret.raised
        /\ ret.val.sources = <<>>
        /\ ret.val.relations = <<>>
        /\ ret.val.co_occurring = <<>>

\* C12 (renderers): for such a query render_explore prints the "not
\* found" placeholder and no tree or table.
C12_NotFoundShown ==
    (ret.op = "render_explore" /\ Matching(ret.arg[2]) = {}) =>
        /\ ~ret.raised
        /\ output = NotFound

\* C12: a query matching no mention name gives an all-empty detail and
\* the "not found" path of render_explore.
C12_NoMatch == C12_DetailEmpty /\ C12_NotFoundShown

\* render_explore took the "not found" path for a query matching none of
\* the mentions there are, two of them in the source a relation row
\* starts from.
C12_Witness ==
    /\ ret.op = "render_explore" /\ ~ret.raised /\ output = NotFound
    /\ Len(entity_metadata) = 2 /\ Matching(ret.arg[2]) = {}
    /\ entity_metadata[1].entity # entity_metadata[2].entity
    /\ \A i \in 1..2 : /\ entity_metadata[i].source_type = "session"
                        /\ entity_metadata[i].source_id = 1
    /\ entry_relations # <<>> /\ sessions # <<>>

\* text contains q as a literal, case-sensitive substring.
Contains(text, q) ==
    \E k \in 0..(Len(text) - Len(q)) : SubSeq(text, k + 1, k + Len(q)) = q

\* C13: the sources get_entity_detail returns are exactly the mention rows
\* whose entity name contains the query as a case-sensitive literal
\* substring (one source per such row): a name differing from the query
\* in letter case is not matched, and no character of the query acts as a
\* wildcard.
C13_LiteralSubstring ==
    (ret.op = "get_entity_detail" /\ ~ret.raised) =>
        Len(ret.val.sources) =
            Cardinality({i \in 1..Len(entity_metadata) :
                           Contains(entity_metadata[i].entity, ret.arg)})

\* ------------------------------------------------ claims: idempotence

\* The last two queries were the same derivation query with the same
\* arguments.
Repeated ==
    /\ ret.op \in DerivationQueries
    /\ prior.op = ret.op /\ prior.arg = ret.arg

C15_LabelsBounded ==
    /\ (ret.op = "get_relations" /\ ~ret.raised) =>
          \A i \in 1..Len(ret.val) :
             /\ ret.val[i].from_label # NULL => Len(ret.val[i].from_label.v) <= 60
             /\ ret.val[i].to_label # NULL => Len(ret.val[i].to_label.v) <= 60
    /\ (ret.op = "get_entity_detail" /\ ~ret.raised) =>
          \A i \in 1..Len(ret.val.sources) :
             ret.val.sources[i].context # NULL =>
                 Len(ret.val.sources[i].context.v) <= 80

\* The same for session and fact sources only.
C15_SessionFactBounded ==
    /\ (ret.op = "get_relations" /\ ~ret.raised) =>
          \A i \in 1..Len(ret.val) :
             /\ (ret.val[i].from_label # NULL /\ ret.val[i].from_type # "knowledge")
                   => Len(ret.val[i].from_label.v) <= 60
             /\ (ret.val[i].to_label # NULL /\ ret.val[i].to_type # "knowledge")
                   => Len(ret.val[i].to_label.v) <= 60
    /\ (ret.op = "get_entity_detail" /\ ~ret.raised) =>
          \A i \in 1..Len(ret.val.sources) :
             (ret.val.sources[i].context # NULL
                /\ ret.val.sources[i].source_type # "knowledge") =>
                 Len(ret.val.sources[i].context.v) <= 80

\* ------------------------------------------- claims: timeline truncation

\* The timestamps of all sessions and all knowledge areas together.
AllStamps ==
    [i \in 1..(Len(sessions) + Len(knowledge)) |->
        IF i <= Len(sessions) THEN sessions[i].created_at
        ELSE knowledge[i - Len(sessions)].updated_at]

\* A sequence of timestamps in descending order.
RECURSIVE Descending(_)
Descending(stamps) ==
    IF stamps = <<>> THEN <<>>
    ELSE LET k == CHOOSE i \in 1..Len(stamps) :
                     \A j \in 1..Len(stamps) : stamps[j] <= stamps[i]
         IN  <<stamps[k]>> \o Descending(SubSeq(stamps, 1, k - 1)
                                           \o SubSeq(stamps, k + 1, Len(stamps)))

\* C16: the timestamps get_timeline(limit) returns are the first `limit`
\* timestamps of the descending sort of all sessions and all knowledge
\* areas together: cutting each source to `limit` before the merge loses
\* no entry among the `limit` most recent overall.
C16_TruncationLossless ==
    (ret.op = "get_timeline" /\ ~ret.raised) =>
        [i \in 1..Len(ret.val) |-> ret.val[i].created_at]
            = SubSeq(Descending(AllStamps), 1, Min(ret.arg, Len(AllStamps)))

\* get_timeline(1) over two sessions and two knowledge areas, both
\* sources cut before the merge, returned the one newest entry, a
\* knowledge area newer than every session.
C16_Witness ==
    /\ ret.op = "get_timeline" /\ ~ret.raised /\ ret.arg = 1
    /\ Len(sessions) = 2 /\ Len(knowledge) = 2
    /\ Len(ret.val) = 1 /\ ret.val[1].type = "knowledge"
    /\ \A i \in 1..2 : sessions[i].created_at < ret.val[1].created_at
    /\ knowledge[1].updated_at # knowledge[2].updated_at

====
